---------------------------- MODULE Spec2Model ----------------------------
(***************************************************************************)
(* TUbe-dl: the download loop of main(), download_video() and the progress *)
(* timer (RepeatTimer) of src/TUbe-dl.py, as a state machine.              *)
(*                                                                         *)
(* One main thread walks the video list; every invocation of               *)
(* download_video owns the cells content_size and downloaded that its      *)
(* print_progress closure reads, and may start one RepeatTimer thread.     *)
(* File contents are sequences of extents <<origin, lo, hi>>: bytes lo..hi *)
(* (hi excluded) of the bytes that were on disk at start ("old") or of the *)
(* server's resource ("res").                                              *)
(***************************************************************************)
EXTENDS Integers, Sequences, FiniteSets, TLC

(* ------------------------------ bounds -------------------------------- *)

\* Longest video list of a run.
MaxVideos == 2

\* Timer expiries (ticks) over a whole run.
MaxTicks == 2

\* Lengths, in bytes, the server's resource may have.
Lengths == {0, 1024, 98304}

\* Sizes, in bytes, of a destination file that exists before the run.
ExistingSizes == {0, 512, 1024}

\* The titles of the playlist; the destination file is <outdir>/<title>.mp4.
\* With one title every video of a list has the same destination, so a later
\* video finds on disk what an earlier one left (a re-run of the download).
Titles == {"Lecture 1"}

\* What the user may type at the confirmation prompt.
Answers == {"y", "Yes", "n", ""}

\* Terminal widths, in columns: 6 is narrower than the progress bar's
\* brackets and percent, 20 to 22 give name fields of 9 and 10 characters.
Widths == {6, 20, 21, 22, 80}

\* Titles a formatter is constructed for: 9, 10, 12, 13 and 44 characters.
DisplayTitles == {"Lecture 1", "Lecture 10", "Lecture 10bc", "Lecture 10bcd",
                  "Lecture 1: an introduction to model checking"}

\* Content-Lengths, in bytes, of the resources whose progress is formatted:
\* 1, 2, 3 and 50 whole chunks, and two that are no multiple of a chunk.
FormattedLengths == {1024, 65536, 98304, 131072, 196608, 3276800}

(* ------------------------- program constants -------------------------- *)

CHUNK_SIZE == 64 * 1024

\* requests.codes
ALL_OKAY == 200
PARTIAL_CONTENT == 206
NOT_FOUND == 404
RANGE_NOT_SATISFIABLE == 416
SERVICE_UNAVAILABLE == 503

\* Python's None, for a value that is otherwise a one-element tuple <<n>>.
None == <<>>

\* dict.get() of a header the response does not carry.
NoHeader == "(absent)"

\* The response variable outside the "with resume_download(...) as r" block.
NoResponse == [status |-> 0, accept_ranges |-> NoHeader, content_length |-> None,
               lo |-> 0, hi |-> 0, total |-> 0]

(* ------------------------------- files -------------------------------- *)

NoFile == [exists |-> FALSE, data |-> <<>>]

EmptyFile == [exists |-> TRUE, data |-> <<>>]

OldFile(k) == [exists |-> TRUE, data |-> IF k = 0 THEN <<>> ELSE << <<"old", 0, k>> >>]

RECURSIVE DataSize(_)
DataSize(data) ==
    IF data = <<>> THEN 0
    ELSE (data[Len(data)][3] - data[Len(data)][2]) + DataSize(SubSeq(data, 1, Len(data) - 1))

\* os.path.getsize of an existing file.
FileSize(f) == DataSize(f.data)

\* f.write(chunk) on a handle opened 'ab' or 'wb': the bytes lo..hi of the
\* resource go to the end of the file (adjacent extents are kept as one).
WriteBytes(f, lo, hi) ==
    LET n == Len(f.data) IN
    IF lo = hi THEN f
    ELSE IF n > 0 /\ f.data[n][1] = "res" /\ f.data[n][3] = lo
         THEN [f EXCEPT !.data[n] = <<"res", f.data[n][2], hi>>]
         ELSE [f EXCEPT !.data = Append(f.data, <<"res", lo, hi>>)]

\* open(filename, mode): 'wb' creates or truncates, 'ab' creates or keeps.
OpenedFile(f, mode) ==
    IF mode = "wb" THEN EmptyFile
    ELSE IF f.exists THEN f ELSE EmptyFile

(* ------------------------------ strings ------------------------------- *)

\* str.upper() on the answers of the model.
Upper(s) ==
    CASE s = "y" -> "Y"
      [] s = "Y" -> "Y"
      [] s = "yes" -> "YES"
      [] s = "Yes" -> "YES"
      [] s = "YES" -> "YES"
      [] s = "n" -> "N"
      [] s = "no" -> "NO"
      [] OTHER -> s

\* A prompt whose default is yes: only N and NO decline.
Accepts_default_yes(answer) == Upper(answer) \notin {"N", "NO"}

\* resp not in ['Y', 'YES'] is the decline test of line 127.
Accepts(answer) == Upper(answer) \in {"Y", "YES"}

(* ------------------------------- server ------------------------------- *)

AcceptRangesValues == {NoHeader, "none", "bytes"}

ContentLengths(n) == {None, <<n>>}

\* What the server may answer to a GET with "Range: bytes=<range>-": the
\* whole resource (200), its suffix from the requested offset (206, only
\* when the offset lies inside the resource), 416 (only when it does not),
\* or an error status.  lo..hi is the body still unread; total is the
\* resource's length (0 where there is no such resource).
Responses(range) ==
    UNION { LET full == { [status |-> ALL_OKAY, accept_ranges |-> ar, content_length |-> cl,
                           lo |-> 0, hi |-> L, total |-> L]
                          : ar \in AcceptRangesValues, cl \in ContentLengths(L) }
                part == IF range < L
                        THEN { [status |-> PARTIAL_CONTENT, accept_ranges |-> ar,
                                content_length |-> cl, lo |-> range, hi |-> L, total |-> L]
                               : ar \in AcceptRangesValues, cl \in ContentLengths(L - range) }
                        ELSE {}
                unsat == IF range >= L
                         THEN { [status |-> RANGE_NOT_SATISFIABLE, accept_ranges |-> NoHeader,
                                 content_length |-> None, lo |-> 0, hi |-> 0, total |-> L] }
                         ELSE {}
                errs == { [status |-> s, accept_ranges |-> NoHeader, content_length |-> None,
                           lo |-> 0, hi |-> 0, total |-> 0]
                          : s \in {NOT_FOUND, SERVICE_UNAVAILABLE} }
            IN  full \cup part \cup unsat \cup errs
          : L \in Lengths }

\* The lengths the next chunk of iter_content(chunk_size) may have when
\* `left` bytes of the body are unread: chunk_size bytes, or the rest of the
\* body when that is shorter.
ChunkLengths(chunk_size, left) ==
    { IF left < chunk_size THEN left ELSE chunk_size }

(* ------------------------- Python's float (binary64) ------------------ *)

\* A positive float is m * 2^e with m an integer of exactly 53 bits, kept as
\* the sequence of its bits, most significant first; 0.0 has no bits.
\* Only the range of the model is covered: no subnormals, infinities or NaN.
MANT_DIG == 53

Zero == [m |-> <<>>, e |-> 0]

RECURSIVE BitsOf(_)
BitsOf(n) == IF n = 0 THEN <<>> ELSE Append(BitsOf(n \div 2), n % 2)

RECURSIVE ValueOf(_)
ValueOf(bits) ==
    IF bits = <<>> THEN 0
    ELSE 2 * ValueOf(SubSeq(bits, 1, Len(bits) - 1)) + bits[Len(bits)]

\* bits + 1, as a sequence one bit longer when the carry runs out of it.
RECURSIVE Increment(_)
Increment(bits) ==
    IF bits = <<>> THEN <<1>>
    ELSE IF bits[Len(bits)] = 0
         THEN Append(SubSeq(bits, 1, Len(bits) - 1), 1)
         ELSE Append(Increment(SubSeq(bits, 1, Len(bits) - 1)), 0)

\* Round to nearest, ties to even: the float nearest to bits * 2^e, where
\* bits starts with a 1 and `inexact` says that the exact value lies above
\* bits * 2^e by less than one unit of the last bit.
RoundToNearestEven(bits, e, inexact) ==
    LET n == Len(bits) IN
    IF n <= MANT_DIG
    THEN [m |-> bits \o [k \in 1..(MANT_DIG - n) |-> 0], e |-> e - (MANT_DIG - n)]
    ELSE LET kept   == SubSeq(bits, 1, MANT_DIG)
             half   == bits[MANT_DIG + 1] = 1
             more   == inexact \/ \E k \in (MANT_DIG + 2)..n : bits[k] = 1
             up     == half /\ (more \/ kept[MANT_DIG] = 1)
             raised == IF up THEN Increment(kept) ELSE kept
         IN  IF Len(raised) > MANT_DIG
             THEN [m |-> SubSeq(raised, 1, MANT_DIG), e |-> e + (n - MANT_DIG) + 1]
             ELSE [m |-> raised, e |-> e + (n - MANT_DIG)]

\* The first k bits of rem / b after the binary point, for 0 <= rem < b
\* (long division, one bit a step).
RECURSIVE FractionBits(_, _, _)
FractionBits(rem, b, k) ==
    IF k = 0 THEN <<>>
    ELSE LET bit == IF 2 * rem >= b THEN 1 ELSE 0
         IN  <<bit>> \o FractionBits(2 * rem - bit * b, b, k - 1)

\* What is left of rem after those k bits.
RECURSIVE Remainder(_, _, _)
Remainder(rem, b, k) ==
    IF k = 0 \/ rem = 0 THEN rem
    ELSE Remainder(IF 2 * rem >= b THEN 2 * rem - b ELSE 2 * rem, b, k - 1)

\* The zero bits of rem / b between the binary point and its first 1 bit,
\* for 0 < rem < b.
RECURSIVE LeadingZeros(_, _)
LeadingZeros(rem, b) ==
    IF 2 * rem >= b THEN 0 ELSE 1 + LeadingZeros(2 * rem, b)

\* a / b for ints a >= 0 and 0 < b <= 2^30 (int.__truediv__): the float
\* nearest to the quotient.  MANT_DIG + 1 significant bits of the quotient
\* and the remainder decide the rounding.
TrueDivide(a, b) ==
    IF a = 0 THEN Zero
    ELSE LET whole == BitsOf(a \div b)
             zeros == IF whole = <<>> THEN LeadingZeros(a, b) ELSE 0
             k     == IF Len(whole) > MANT_DIG THEN 0
                      ELSE zeros + MANT_DIG + 1 - Len(whole)
             frac  == FractionBits(a % b, b, k)
         IN  RoundToNearestEven(whole \o SubSeq(frac, zeros + 1, k), -k,
                                Remainder(a % b, b, k) # 0)

\* The w low bits of v.
FixedBits(v, w) == [k \in 1..w |-> (v \div 2^(w - k)) % 2]

\* bits * n for the MANT_DIG bits of a float and an int 1 <= n < 2^10, in
\* three limbs of at most 20 bits.
TimesBits(bits, n) ==
    LET lo  == ValueOf(SubSeq(bits, 34, 53)) * n
        mid == ValueOf(SubSeq(bits, 14, 33)) * n + lo \div 2^20
        hi  == ValueOf(SubSeq(bits, 1, 13)) * n + mid \div 2^20
    IN  BitsOf(hi) \o FixedBits(mid % 2^20, 20) \o FixedBits(lo % 2^20, 20)

\* n * x and x * n for an int 0 <= n < 2^10 and a float x: n is converted
\* to float (exactly) and the product is rounded.
FloatTimes(n, x) ==
    IF n = 0 \/ x = Zero THEN Zero
    ELSE RoundToNearestEven(TimesBits(x.m, n), x.e, FALSE)

\* int(x): the integral part of a float x >= 0.
IntOf(x) ==
    IF x = Zero \/ x.e <= -MANT_DIG THEN 0
    ELSE IF x.e < 0 THEN ValueOf(SubSeq(x.m, 1, MANT_DIG + x.e))
    ELSE ValueOf(x.m \o [k \in 1..x.e |-> 0])

(* -------------------------- ProgressFormatter ------------------------- *)

PROGRESS_SIGN == "#"

NO_PROGRESS_SIGN == "-"

PROGRESS_OTHER_CHAR_COUNT == 7

\* s * n for a str s: n copies of it, none for n <= 0.
RECURSIVE Repeat(_, _)
Repeat(s, n) ==
    IF n <= 0 THEN ""
    ELSE LET half == Repeat(s, n \div 2)
         IN  half \o half \o (IF n % 2 = 1 THEN s ELSE "")

\* value[:k]: the first k characters, or all but the last -k for k < 0.
Slice(value, k) ==
    LET n == IF k >= 0 THEN k ELSE Len(value) + k
    IN  SubSeq(value, 1, IF n > Len(value) THEN Len(value) ELSE n)

\* str(n) for an int n >= 0.
RECURSIVE Decimal(_)
Decimal(n) ==
    LET digit == SubSeq("0123456789", (n % 10) + 1, (n % 10) + 1)
    IN  IF n < 10 THEN digit ELSE Decimal(n \div 10) \o digit

\* f'{n:>3d}': right-justified in a field of at least `width` characters.
RightJustify(s, width) == Repeat(" ", width - Len(s)) \o s

\* int(_termwidth/2 - 1): int() rounds towards zero.
name_size(termwidth) ==
    IF termwidth >= 2 THEN (termwidth - 2) \div 2 ELSE -((2 - termwidth) \div 2)

progarea_size(termwidth) == name_size(termwidth)

max_progress(termwidth) == progarea_size(termwidth) - PROGRESS_OTHER_CHAR_COUNT

spaces(termwidth) == Repeat(" ", 2 + (termwidth % 2))

\* The name setter (lines 61-68): what _name becomes for a title.
SetName(value, termwidth) ==
    IF Len(value) - 3 > name_size(termwidth)
    THEN Slice(value, name_size(termwidth) - 3) \o "..."
    ELSE value \o Repeat(" ", name_size(termwidth) - Len(value))

\* int(n * x) for an int n and a float x >= 0.
IntOfProduct(n, x) ==
    IF n >= 0 THEN IntOf(FloatTimes(n, x)) ELSE -IntOf(FloatTimes(-n, x))

\* int(progress * 100) of format_progress for progress = done / size.
Percent(done, size) == IntOfProduct(100, TrueDivide(done, size))

\* int(self._max_progress * progress) for progress = done / size.
Hashes(termwidth, done, size) == IntOfProduct(max_progress(termwidth), TrueDivide(done, size))

\* format_progress(done / size) of a formatter whose _name is name.
format_progress(name, termwidth, done, size) ==
    LET percent == RightJustify(Decimal(Percent(done, size)), 3)
        signs   == Repeat(PROGRESS_SIGN, Hashes(termwidth, done, size))
        progress_bar == signs \o Repeat(NO_PROGRESS_SIGN, max_progress(termwidth) - Len(signs))
    IN  name \o spaces(termwidth) \o "[" \o progress_bar \o "] " \o percent \o "%"

(* --------------------------- download_video --------------------------- *)

\* A resume that asks for the whole resource again.
RangeStart_zero(resume_byte_pos) == 0

\* The byte offset resume_download puts in the Range header.
RangeStart(resume_byte_pos) == resume_byte_pos

\* A test for the wrong status code (requests.codes.NOT_FOUND).
Unsatisfiable_404(status) == status = NOT_FOUND

\* r.status_code == requests.codes.RANGE_NOT_SATISFIABLE
Unsatisfiable(status) == status = RANGE_NOT_SATISFIABLE

\* A status check that lets client errors through.
RaisesForStatus_5xx(status) == 500 <= status /\ status < 600

\* response.raise_for_status(): HTTPError for 4xx and 5xx.
RaisesForStatus(status) == 400 <= status /\ status < 600

\* r.headers.get('Accept-Ranges') in [None, 'none']
NoRangeSupport(accept_ranges) == accept_ranges \in {NoHeader, "none"}

\* A completeness test that misses equality.
AlreadyWhole_gt(pos, size) == size # None /\ pos > size[1]

\* position == content_size, where content_size is None or an int.
AlreadyWhole(pos, size) == size # None /\ pos = size[1]

\* downloaded += CHUNK_SIZE
Advance(done, chunk_len) == done + CHUNK_SIZE

\* A completion that leaves the counter as the loop left it.
Clamp_keep(done, size) == done

\* downloaded = content_size (line 161)
Clamp(done, size) == size

\* downloaded / content_size raises ZeroDivisionError for a divisor of 0.
ZeroDivision(size) == size = 0

VARIABLES
    videos,        \* the playlist: a sequence of titles
    force, quiet,  \* the --force and --quiet flags
    files,         \* the output directory: title -> file
    idx,           \* the video the for loop of main is at (1-based)
    pc,            \* where the main thread is
    position,      \* download_video's local
    filemode,      \* download_video's local
    r,             \* the response of the with block
    content_size,  \* per invocation: the cell print_progress reads
    downloaded,    \* per invocation: the cell print_progress reads
    timer,         \* per invocation: the RepeatTimer thread
    ticks,         \* timer expiries so far
    stdout,        \* the lines written to sys.stdout since main reached the
                   \* current video, in order
    stderr,        \* the items main reported on sys.stderr, in order
    attempted,     \* the items download_video was called for, in order (history)
    hist,          \* what the current (or last) invocation saw and did (history)
    phase, saved,  \* the paired run of SpecQuietPair
    termwidth,     \* ProgressFormatter._termwidth: the columns of the terminal
    prog_formatter, \* the ProgressFormatter object followed by SpecFormat
    rendered       \* its last call of format_progress: argument and result

vars == <<videos, force, quiet, files, idx, pc, position, filemode, r, content_size,
          downloaded, timer, ticks, stdout, stderr, attempted, hist, phase, saved,
          termwidth, prog_formatter, rendered>>

Items == DOMAIN videos

NewTimer == [st |-> "new", finished |-> FALSE, read |-> 0]

NoHist == [file0 |-> NoFile, range |-> -1, resp |-> NoResponse, prompted |-> FALSE,
           answer |-> "", mode |-> "", outcome |-> "pending"]

\* No ProgressFormatter was constructed, format_progress was not called.
NoFormatter == [constructed |-> FALSE, name |-> ""]

NoRender == [called |-> FALSE, done |-> 0, size |-> 1, text |-> ""]

\* shutil.get_terminal_size()[0] where no terminal is attached.
FALLBACK_COLUMNS == 80

\* The formatter where the lines of stdout are followed as records, not as
\* text: Spec and SpecQuietPair.
NoDisplay ==
    /\ termwidth = FALLBACK_COLUMNS
    /\ prog_formatter = NoFormatter
    /\ rendered = NoRender

\* What the paired run keeps of its first run; not used by a single run.
NoSaved == [files |-> [t \in Titles |-> NoFile], hist |-> NoHist]

InitialFiles == {NoFile} \cup { OldFile(k) : k \in ExistingSizes }

\* The state main is in when it reaches its for loop.
Start(vs, fs, f, q) ==
    /\ videos = vs
    /\ files = fs
    /\ force = f
    /\ quiet = q
    /\ idx = 1
    /\ pc = "loop"
    /\ position = 0
    /\ filemode = ""
    /\ r = NoResponse
    /\ content_size = [i \in DOMAIN vs |-> None]
    /\ downloaded = [i \in DOMAIN vs |-> 0]
    /\ timer = [i \in DOMAIN vs |-> NewTimer]
    /\ ticks = 0
    /\ stdout = <<>>
    /\ stderr = <<>>
    /\ attempted = <<>>
    /\ hist = NoHist

Playlists == UNION { [1..n -> Titles] : n \in 1..MaxVideos }

Init ==
    /\ \E vs \in Playlists, fs \in [Titles -> InitialFiles], f \in BOOLEAN, q \in BOOLEAN :
          Start(vs, fs, f, q)
    /\ phase = 0
    /\ saved = NoSaved
    /\ NoDisplay

filename == videos[idx]

\* A line on stdout: who wrote it, for which item, and what.
Line(src, i, kind, done, size) ==
    [src |-> src, item |-> i, kind |-> kind, done |-> done, size |-> size]

\* print(prog_formatter.format_msg(msg)) unless quiet.
PrintMsg(msg) ==
    stdout' = IF quiet THEN stdout ELSE Append(stdout, Line("main", idx, msg, 0, 0))

\* The frame of download_video is left: the with block closes the response,
\* the locals are gone, and so are the cells of a closure that no started
\* timer thread holds.
LeaveFrame ==
    /\ r' = NoResponse
    /\ position' = 0
    /\ filemode' = ""
    /\ IF timer[idx].st = "new"
       THEN /\ content_size' = [content_size EXCEPT ![idx] = None]
            /\ downloaded' = [downloaded EXCEPT ![idx] = 0]
       ELSE UNCHANGED <<content_size, downloaded>>

\* Line 245: the for loop of main moves on to the next video.
NextVideo ==
    /\ idx' = idx + 1
    /\ pc' = "loop"

\* download_video returns (lines 106, 120, 128, 167).
Return(outcome) ==
    /\ hist' = [hist EXCEPT !.outcome = outcome]
    /\ LeaveFrame
    /\ NextVideo
    /\ UNCHANGED stderr

\* An exception that main does not catch: it ends the for loop.
Raise_abort ==
    /\ hist' = [hist EXCEPT !.outcome = "Failed"]
    /\ LeaveFrame
    /\ stderr' = Append(stderr, idx)
    /\ idx' = Len(videos) + 1
    /\ pc' = "loop"

\* download_video raises: the except clause of main (lines 269-270) writes
\* the error to stderr and the loop goes on.
Raise ==
    /\ hist' = [hist EXCEPT !.outcome = "Failed"]
    /\ LeaveFrame
    /\ stderr' = Append(stderr, idx)
    /\ NextVideo

\* The formatter object and its terminal.
Display == <<termwidth, prog_formatter, rendered>>

\* What no step of download_video changes.
Inputs == <<videos, force, quiet, phase, saved, Display>>

\* The locals and cells of the frame, and the loop of main.
Frame == <<idx, r, position, filemode, content_size, downloaded, stderr>>

\* Lines 245-266 and 93-100: the next video; os.path.getsize(filename).
GetSize ==
    /\ pc = "loop"
    /\ idx <= Len(videos)
    /\ LET f == files[filename] IN
         /\ position' = (IF f.exists THEN FileSize(f) ELSE 0)
         /\ filemode' = (IF f.exists THEN "ab" ELSE "wb")
         /\ hist' = [NoHist EXCEPT !.file0 = f]
    /\ attempted' = Append(attempted, idx)
    /\ stdout' = <<>>
    /\ pc' = "request"
    /\ UNCHANGED <<files, idx, r, content_size, downloaded, timer, ticks, stderr>>
    /\ UNCHANGED Inputs

\* Lines 102 and 85-89: the GET with the Range header; the response's
\* status line and headers have arrived.
RequestFrom(responses) ==
    /\ pc = "request"
    /\ \E resp \in responses :
         /\ r' = resp
         /\ hist' = [hist EXCEPT !.range = RangeStart(position), !.resp = resp]
    /\ pc' = "interpret"
    /\ UNCHANGED <<files, idx, position, filemode, content_size, downloaded, timer, ticks,
                   stdout, stderr, attempted>>
    /\ UNCHANGED Inputs

Request == RequestFrom(Responses(RangeStart(position)))

\* Line 89: requests.get raises (DNS, connection, timeout).
RequestFails ==
    /\ pc = "request"
    /\ Raise
    /\ UNCHANGED <<files, timer, ticks, stdout, attempted>>
    /\ UNCHANGED Inputs

\* Lines 103-125: the status, Content-Length, Accept-Ranges.
Interpret ==
    /\ pc = "interpret"
    /\ IF Unsatisfiable(r.status)
       THEN /\ PrintMsg("Already downloaded")
            /\ Return("AlreadyComplete")
       ELSE IF RaisesForStatus(r.status)
       THEN /\ Raise
            /\ UNCHANGED stdout
       ELSE IF NoRangeSupport(r.accept_ranges)
       THEN IF AlreadyWhole(position, r.content_length)
            THEN /\ PrintMsg("Already downloaded")
                 /\ Return("AlreadyComplete")
            ELSE /\ content_size' = [content_size EXCEPT ![idx] = r.content_length]
                 /\ filemode' = "wb"
                 /\ pc' = IF force THEN "progress" ELSE "prompt"
                 /\ UNCHANGED <<idx, r, position, downloaded, hist, stdout, stderr>>
       ELSE /\ content_size' = [content_size EXCEPT ![idx] = r.content_length]
            /\ pc' = "progress"
            /\ UNCHANGED <<idx, r, position, filemode, downloaded, hist, stdout, stderr>>
    /\ UNCHANGED <<files, timer, ticks, attempted>>
    /\ UNCHANGED Inputs

\* Lines 126-128: input(...).upper(); anything but Y or YES returns.
PromptFrom(answers) ==
    /\ pc = "prompt"
    /\ \E answer \in answers :
         IF Accepts(answer)
         THEN /\ hist' = [hist EXCEPT !.prompted = TRUE, !.answer = answer]
              /\ pc' = "progress"
              /\ UNCHANGED Frame
         ELSE /\ hist' = [hist EXCEPT !.prompted = TRUE, !.answer = answer,
                                      !.outcome = "SkippedByUser"]
              /\ LeaveFrame
              /\ NextVideo
              /\ UNCHANGED stderr
    /\ UNCHANGED <<files, timer, ticks, stdout, attempted>>
    /\ UNCHANGED Inputs

Prompt == PromptFrom(Answers)

\* print_progress() on the main thread (lines 131-135, called at 148 and 164).
MainRender(kind, done) ==
    stdout' = Append(stdout, Line("main", idx, kind, done, content_size[idx][1]))

\* Lines 130-149: downloaded = 0; the first progress line and the timer's
\* start, or the static line when the length is unknown.
StartProgress ==
    /\ pc = "progress"
    /\ IF quiet
       THEN /\ pc' = "open"
            /\ UNCHANGED <<Frame, timer, stdout, hist>>
       ELSE IF content_size[idx] = None
       THEN /\ PrintMsg("Downloading...")
            /\ pc' = "open"
            /\ UNCHANGED <<Frame, timer, hist>>
       ELSE IF ZeroDivision(content_size[idx][1])
       THEN /\ Raise
            /\ UNCHANGED <<timer, stdout>>
       ELSE /\ MainRender("progress", downloaded[idx])
            /\ timer' = [timer EXCEPT ![idx].st = "wait"]
            /\ pc' = "open"
            /\ UNCHANGED <<Frame, hist>>
    /\ UNCHANGED <<files, ticks, attempted>>
    /\ UNCHANGED Inputs

\* Line 151: open(filename, filemode).
OpenFile ==
    /\ pc = "open"
    /\ files' = [files EXCEPT ![filename] = OpenedFile(@, filemode)]
    /\ hist' = [hist EXCEPT !.mode = filemode]
    /\ pc' = "chunks"
    /\ UNCHANGED <<Frame, timer, ticks, stdout, attempted>>
    /\ UNCHANGED Inputs

\* Line 151: open raises OSError; nothing is created or truncated.
OpenFails ==
    /\ pc = "open"
    /\ Raise
    /\ UNCHANGED <<files, timer, ticks, stdout, attempted>>
    /\ UNCHANGED Inputs

\* Lines 152-154: one chunk of the body is written; downloaded advances.
WriteChunk ==
    /\ pc = "chunks"
    /\ r.lo < r.hi
    /\ \E n \in ChunkLengths(CHUNK_SIZE, r.hi - r.lo) :
         /\ files' = [files EXCEPT ![filename] = WriteBytes(@, r.lo, r.lo + n)]
         /\ r' = [r EXCEPT !.lo = r.lo + n]
         /\ downloaded' = [downloaded EXCEPT ![idx] = Advance(@, n)]
    /\ UNCHANGED <<idx, pc, position, filemode, content_size, timer, ticks, stdout, stderr,
                   attempted, hist>>
    /\ UNCHANGED Inputs

\* Lines 152-153: iter_content or f.write raises; the with blocks close the
\* file and the response, and the exception leaves download_video.
ChunkFails ==
    /\ pc = "chunks"
    /\ r.lo < r.hi
    /\ Raise
    /\ UNCHANGED <<files, timer, ticks, stdout, attempted>>
    /\ UNCHANGED Inputs

\* Lines 152 and 156: the body is exhausted, the file is closed.
EndOfBody ==
    /\ pc = "chunks"
    /\ r.lo = r.hi
    /\ IF ~quiet /\ content_size[idx] # None
       THEN /\ pc' = "cancel"
            /\ UNCHANGED <<Frame, hist>>
       ELSE Return("Done")
    /\ UNCHANGED <<files, timer, ticks, stdout, attempted>>
    /\ UNCHANGED Inputs

\* Line 158: print_progress_timer.cancel() sets the finished event.
Cancel ==
    /\ pc = "cancel"
    /\ timer' = [timer EXCEPT ![idx].finished = TRUE]
    /\ pc' = "final"
    /\ UNCHANGED <<Frame, files, ticks, stdout, attempted, hist>>
    /\ UNCHANGED Inputs

\* Lines 161-164: downloaded = content_size; the last progress line.
FinalRender ==
    /\ pc = "final"
    /\ downloaded' = [downloaded EXCEPT ![idx] = Clamp(@, content_size[idx][1])]
    /\ MainRender("final", downloaded'[idx])
    /\ pc' = "newline"
    /\ UNCHANGED <<files, idx, r, position, filemode, content_size, stderr, timer, ticks,
                   attempted, hist>>
    /\ UNCHANGED Inputs

\* Line 167: sys.stdout.write('\n'); download_video returns.
Newline ==
    /\ pc = "newline"
    /\ stdout' = Append(stdout, Line("main", idx, "newline", 0, 0))
    /\ Return("Done")
    /\ UNCHANGED <<files, timer, ticks, attempted>>
    /\ UNCHANGED Inputs

\* The for loop of main is over (the process is about to exit, and its
\* daemon threads with it).
Finished == pc = "loop" /\ idx > Len(videos)

(* ----------------------------- RepeatTimer ---------------------------- *)

\* What the timer thread does not touch.
Main == <<files, pc, Frame, attempted, hist>>

\* Line 30: finished.wait(interval) times out, the event not being set.
TimerExpire(i) ==
    /\ timer[i].st = "wait"
    /\ ~timer[i].finished
    /\ ticks < MaxTicks
    /\ ticks' = ticks + 1
    /\ timer' = [timer EXCEPT ![i].st = "call"]
    /\ UNCHANGED <<Main, stdout>>
    /\ UNCHANGED Inputs

\* Line 30: finished.wait returns True after cancel(); run() ends.
TimerStop(i) ==
    /\ timer[i].st = "wait"
    /\ timer[i].finished
    /\ timer' = [timer EXCEPT ![i].st = "dead"]
    /\ UNCHANGED <<Main, ticks, stdout>>
    /\ UNCHANGED Inputs

\* Lines 31 and 134: print_progress on the timer thread reads downloaded
\* and formats the line.
TimerRead(i) ==
    /\ timer[i].st = "call"
    /\ timer' = [timer EXCEPT ![i].st = "write", ![i].read = downloaded[i]]
    /\ UNCHANGED <<Main, ticks, stdout>>
    /\ UNCHANGED Inputs

\* Lines 134-135: the timer thread writes the line it formatted.
TimerWrite(i) ==
    /\ timer[i].st = "write"
    /\ stdout' = Append(stdout, Line("timer", i, "progress", timer[i].read, content_size[i][1]))
    /\ timer' = [timer EXCEPT ![i].st = "wait", ![i].read = 0]
    /\ UNCHANGED <<Main, ticks>>
    /\ UNCHANGED Inputs

TimerNext ==
    \/ \E i \in Items : TimerExpire(i)
    \/ \E i \in Items : TimerStop(i)
    \/ \E i \in Items : TimerRead(i)
    \/ \E i \in Items : TimerWrite(i)

MainNext ==
    \/ GetSize
    \/ Request
    \/ RequestFails
    \/ Interpret
    \/ Prompt
    \/ StartProgress
    \/ OpenFile
    \/ OpenFails
    \/ WriteChunk
    \/ ChunkFails
    \/ EndOfBody
    \/ Cancel
    \/ FinalRender
    \/ Newline

Next == MainNext \/ TimerNext

Spec == Init /\ [][Next]_vars

(* ----------------------------- paired runs ---------------------------- *)

\* The program is run twice on the same playlist of one video, the same
\* directory, the same force flag, the same server response and the same
\* user answer: first without --quiet (phase 1), then with it (phase 2).
\* No transport or file error is injected in either run.

InitPair ==
    /\ \E t \in Titles, fs \in [Titles -> InitialFiles], f \in BOOLEAN :
          Start(<<t>>, fs, f, FALSE)
    /\ phase = 1
    /\ saved = NoSaved
    /\ NoDisplay

\* The steps of a run that no error interrupts, on the inputs given.
RunFrom(responses, answers) ==
    \/ GetSize
    \/ RequestFrom(responses)
    \/ Interpret
    \/ PromptFrom(answers)
    \/ StartProgress
    \/ OpenFile
    \/ WriteChunk
    \/ EndOfBody
    \/ Cancel
    \/ FinalRender
    \/ Newline
    \/ TimerNext

FirstRun ==
    /\ phase = 1
    /\ RunFrom(Responses(RangeStart(position)), Answers)

\* The first run is over: what it left is kept, the directory is put back
\* as the first run found it, and the program starts again with --quiet.
SecondStart ==
    /\ phase = 1
    /\ Finished
    /\ saved' = [files |-> files, hist |-> hist]
    /\ phase' = 2
    /\ quiet' = TRUE
    /\ files' = [files EXCEPT ![videos[1]] = hist.file0]
    /\ idx' = 1
    /\ pc' = "loop"
    /\ content_size' = [i \in Items |-> None]
    /\ downloaded' = [i \in Items |-> 0]
    /\ timer' = [i \in Items |-> NewTimer]
    /\ ticks' = 0
    /\ stdout' = <<>>
    /\ stderr' = <<>>
    /\ attempted' = <<>>
    /\ hist' = NoHist
    /\ UNCHANGED <<videos, force, r, position, filemode, Display>>

SecondRun ==
    /\ phase = 2
    /\ RunFrom({saved.hist.resp},
               IF saved.hist.prompted THEN {saved.hist.answer} ELSE Answers)

NextPair == FirstRun \/ SecondStart \/ SecondRun

SpecQuietPair == InitPair /\ [][NextPair]_vars

(* ----------------------------- the formatter -------------------------- *)

\* A ProgressFormatter is constructed for a title on a terminal of some
\* width, and format_progress is called on it for downloaded / content_size
\* after any number of whole chunks of a resource, or more (the counter
\* advances by CHUNK_SIZE whatever was read).

InitFormat ==
    /\ \E t \in DisplayTitles : Start(<<t>>, [x \in {t} |-> NoFile], FALSE, FALSE)
    /\ phase = 0
    /\ saved = NoSaved
    /\ termwidth \in Widths
    /\ prog_formatter = NoFormatter
    /\ rendered = NoRender

\* The chunks iter_content yields for a body of n bytes.
ChunksOf(n) == (n + CHUNK_SIZE - 1) \div CHUNK_SIZE

RECURSIVE AdvanceTimes(_)
AdvanceTimes(k) == IF k = 0 THEN 0 ELSE Advance(AdvanceTimes(k - 1), CHUNK_SIZE)

\* The values <<downloaded, content_size>> at a call of print_progress
\* (lines 148, 31 and 164): downloaded after none to all of the chunks, or
\* after line 161.
Progresses ==
    UNION { { <<AdvanceTimes(k), n>> : k \in 0..ChunksOf(n) } \cup { <<Clamp(0, n), n>> }
            : n \in FormattedLengths }

\* What the formatter's methods leave alone.
Download == <<videos, force, quiet, phase, saved, Main, timer, ticks, stdout>>

\* Line 268 and 54-68: ProgressFormatter(name).
NewFormatter ==
    /\ ~prog_formatter.constructed
    /\ prog_formatter' = [constructed |-> TRUE, name |-> SetName(videos[idx], termwidth)]
    /\ UNCHANGED <<Download, termwidth, rendered>>

\* Lines 134 and 70-79: prog_formatter.format_progress(downloaded / content_size).
FormatProgress ==
    /\ prog_formatter.constructed
    /\ \E p \in Progresses :
         rendered' = [called |-> TRUE, done |-> p[1], size |-> p[2],
                      text |-> format_progress(prog_formatter.name, termwidth, p[1], p[2])]
    /\ UNCHANGED <<Download, termwidth, prog_formatter>>

NextFormat == NewFormatter \/ FormatProgress

SpecFormat == InitFormat /\ [][NextFormat]_vars

(* ------------------------------ the claims ---------------------------- *)

\* The item of the current (or last) invocation of download_video.
Cur == attempted[Len(attempted)]

\* Its destination file, as it is on disk now.
CurFile == files[videos[Cur]]

Called == attempted # <<>>

Returned == Called /\ hist.outcome # "pending"

\* The size os.path.getsize found, 0 for a file that was not there.
Size0 == FileSize(hist.file0)

Success(resp) == resp.status \in {ALL_OKAY, PARTIAL_CONTENT}

DeclaresRanges(resp) == resp.accept_ranges = "bytes"

DeclaresNoRanges(resp) == resp.accept_ranges \in {NoHeader, "none"}

\* The answers that confirm, whatever their case.
YesAnswers == {"y", "Y", "yes", "Yes", "YES"}

\* The progress lines (first, ticks, last) among the lines of stdout.
ProgressLines == { k \in DOMAIN stdout : stdout[k].kind \in {"progress", "final"} }

\* C1: resume correctness.  For an existing file of k > 0 bytes, the range
\* requested starts at exactly k; when the server declares range support and
\* answers 206, the file is opened in append mode, and after a successful
\* transfer it holds the k old bytes followed by the bytes k..total of the
\* resource, so its size is the resource's total length.
C1_ResumeCorrect ==
    (Called /\ hist.file0.exists /\ Size0 > 0) =>
        /\ hist.range # -1 => hist.range = Size0
        /\ (hist.resp.status = PARTIAL_CONTENT /\ DeclaresRanges(hist.resp)) =>
              /\ hist.mode # "" => hist.mode = "ab"
              /\ hist.outcome = "Done" =>
                    /\ FileSize(CurFile) = hist.resp.total
                    /\ CurFile = WriteBytes(hist.file0, Size0, hist.resp.total)

\* A 512-byte file was resumed with a 206 of the remaining 512 bytes.
C1_Witness ==
    /\ Called /\ hist.file0 = OldFile(512)
    /\ hist.resp.status = PARTIAL_CONTENT /\ DeclaresRanges(hist.resp)
    /\ hist.resp.total = 1024
    /\ hist.range = 512 /\ hist.mode = "ab" /\ hist.outcome = "Done"
    /\ FileSize(CurFile) = 1024

\* C2: a 416 answer ends the invocation as AlreadyComplete; the destination
\* is never opened and stays byte for byte what it was, in this and so in
\* every further run.
C2_CompleteIsIdempotent ==
    (Called /\ hist.resp.status = RANGE_NOT_SATISFIABLE) =>
        /\ hist.mode = ""
        /\ CurFile = hist.file0
        /\ pc \in {"interpret", "loop"}
        /\ pc = "loop" => hist.outcome = "AlreadyComplete"

\* The second run over a complete 1024-byte file got 416 again and left it.
C2_Witness ==
    /\ Len(attempted) = 2
    /\ hist.resp.status = RANGE_NOT_SATISFIABLE /\ hist.resp.total = 1024
    /\ hist.file0 = OldFile(1024)
    /\ hist.outcome = "AlreadyComplete"
    /\ CurFile = OldFile(1024)

\* C3: a success response without declared range support whose
\* Content-Length equals the size on disk ends as AlreadyComplete: the file
\* is not opened (nothing written, nothing truncated) and the user is not
\* prompted, with or without force.
C3_SameLengthIsComplete ==
    (/\ Called /\ Success(hist.resp) /\ DeclaresNoRanges(hist.resp)
     /\ hist.resp.content_length = <<Size0>>) =>
        /\ hist.mode = ""
        /\ ~hist.prompted
        /\ CurFile = hist.file0
        /\ pc \in {"interpret", "loop"}
        /\ pc = "loop" => hist.outcome = "AlreadyComplete"

\* A 1024-byte file met a 200 of Content-Length 1024 without Accept-Ranges.
C3_Witness ==
    /\ Called /\ hist.file0 = OldFile(1024)
    /\ hist.resp.status = ALL_OKAY /\ hist.resp.accept_ranges = NoHeader
    /\ hist.resp.content_length = <<1024>>
    /\ hist.outcome = "AlreadyComplete"
    /\ ~force

\* C4: no range support (a 200 with the whole body), a partial file smaller
\* than the resource, no force: the file is not opened before the user was
\* prompted, and after an answer that is not a yes the invocation has
\* returned as SkippedByUser with the file unopened and unchanged.
C4_DeclineKeepsPartialFile ==
    (/\ Called /\ hist.resp.status = ALL_OKAY /\ DeclaresNoRanges(hist.resp)
     /\ hist.file0.exists /\ 0 < Size0 /\ Size0 < hist.resp.total
     /\ ~force) =>
        /\ pc \in {"progress", "open", "chunks", "cancel", "final", "newline"} => hist.prompted
        /\ hist.mode # "" => hist.prompted
        /\ hist.outcome = "Done" => hist.prompted
        /\ (hist.prompted /\ hist.answer \notin YesAnswers) =>
              /\ hist.outcome = "SkippedByUser"
              /\ pc = "loop"
              /\ hist.mode = ""
              /\ CurFile = hist.file0

\* The user answered the prompt with the empty line; the 512 bytes stayed.
C4_Witness ==
    /\ Called /\ hist.resp.status = ALL_OKAY /\ hist.resp.accept_ranges = "none"
    /\ hist.file0 = OldFile(512) /\ hist.resp.total = 1024
    /\ ~force /\ hist.prompted /\ hist.answer = ""
    /\ hist.outcome = "SkippedByUser"
    /\ CurFile = OldFile(512)

\* C5 (as claimed): with nothing on disk to discard (no file, or an empty
\* one), a 200 with Content-Length L > 0 and no range support is downloaded
\* whatever the user would answer: the invocation does not end as skipped,
\* and unless a transport or file error fails it, the file ends with L
\* bytes and, when not quiet, the last progress line shows 100%.
C5_FreshDownloadNeedsNoAnswer ==
    (/\ Returned /\ Size0 = 0
     /\ hist.resp.status = ALL_OKAY /\ DeclaresNoRanges(hist.resp)
     /\ hist.resp.total > 0 /\ hist.resp.content_length = <<hist.resp.total>>) =>
        /\ hist.outcome \in {"Done", "Failed"}
        /\ ~hist.prompted
        /\ hist.outcome = "Done" =>
              /\ hist.mode = "wb"
              /\ FileSize(CurFile) = hist.resp.total
              /\ ~quiet => \E k \in DOMAIN stdout :
                               /\ stdout[k].kind = "final"
                               /\ Percent(stdout[k].done, stdout[k].size) = 100

C7_BatchContained ==
    /\ attempted = [i \in 1..Len(attempted) |-> i]
    /\ Len(attempted) = (IF pc = "loop" THEN idx - 1 ELSE idx)
    /\ Len(attempted) <= Len(videos)
    /\ Finished => Len(attempted) = Len(videos)
    /\ ~Finished => ENABLED MainNext
    /\ pc = "loop" => r = NoResponse /\ position = 0 /\ filemode = ""
    /\ pc = "request" =>
          /\ r = NoResponse
          /\ position = FileSize(files[filename])
          /\ filemode = (IF files[filename].exists THEN "ab" ELSE "wb")
          /\ content_size[idx] = None /\ downloaded[idx] = 0 /\ timer[idx] = NewTimer
    /\ \A k \in DOMAIN stderr : stderr[k] \in 1..Len(attempted)
    /\ \A k \in DOMAIN stderr : \A m \in DOMAIN stderr : k < m => stderr[k] < stderr[m]
    /\ (Returned /\ hist.outcome = "Failed") => (stderr # <<>> /\ stderr[Len(stderr)] = Cur)
    /\ (Returned /\ hist.outcome # "Failed") => (stderr = <<>> \/ stderr[Len(stderr)] # Cur)

\* The first video failed, and the second was downloaded all the same.
C7_Witness ==
    /\ Finished /\ Len(videos) = 2
    /\ stderr = <<1>>
    /\ attempted = <<1, 2>>
    /\ hist.outcome = "Done"

\* C8 (as claimed): every progress line rendered, by the main thread or by
\* a timer tick, shows a fraction downloaded/total within [0, 1].
C8_ProgressWithinBounds ==
    \A k \in ProgressLines : 0 <= stdout[k].done /\ stdout[k].done <= stdout[k].size

\* C9: when a transfer with a known Content-Length has completed with the
\* progress display on, downloaded equals the Content-Length, the timer is
\* cancelled, and the main thread has written exactly one final progress
\* line, at exactly 100%, and after it the newline.
C9_ClampedOnCompletion ==
    (Returned /\ hist.outcome = "Done" /\ ~quiet /\ hist.resp.content_length # None) =>
        /\ content_size[Cur] = hist.resp.content_length
        /\ downloaded[Cur] = content_size[Cur][1]
        /\ timer[Cur].finished
        /\ \E k \in DOMAIN stdout :
              /\ stdout[k] = Line("main", Cur, "final", content_size[Cur][1], content_size[Cur][1])
              /\ Percent(stdout[k].done, stdout[k].size) = 100
              /\ \A m \in DOMAIN stdout : stdout[m].kind = "final" => m = k
              /\ \E m \in DOMAIN stdout :
                    m > k /\ stdout[m] = Line("main", Cur, "newline", 0, 0)

\* A resource of one chunk and a half was downloaded: the counter had run
\* to two chunks and the final line shows 98304 of 98304.
C9_Witness ==
    /\ Returned /\ hist.outcome = "Done" /\ ~quiet
    /\ hist.resp.content_length = <<98304>>
    /\ hist.resp.status = ALL_OKAY
    /\ downloaded[Cur] = 98304
    /\ \E k \in DOMAIN stdout : stdout[k] = Line("main", Cur, "final", 98304, 98304)

\* C10 (as claimed): --quiet changes the output only.  The quiet run writes
\* nothing to stdout and starts no timer, and it ends with the outcome and
\* the directory contents of the run without --quiet on the same inputs.
C10_QuietChangesOutputOnly ==
    phase = 2 =>
        /\ stdout = <<>>
        /\ \A i \in Items : timer[i] = NewTimer
        /\ Finished =>
              /\ hist.outcome = saved.hist.outcome
              /\ files = saved.files

\* What line k of stdout, a progress line, is on a terminal of w columns:
\* the formatter of the line's item was constructed for the item's title.
ProgressText(w, k) ==
    format_progress(SetName(videos[stdout[k].item], w), w, stdout[k].done, stdout[k].size)

\* C11 (as claimed): padding invariant.  On every terminal of 20 columns
\* or more, all the progress lines a transfer renders for its item (first
\* line, timer ticks, final line) have the same length.
C11_PaddingInvariant ==
    \A w \in Widths : w >= 20 =>
        \A k \in ProgressLines : \A m \in ProgressLines :
            stdout[k].item = stdout[m].item =>
                Len(ProgressText(w, k)) = Len(ProgressText(w, m))

\* C12 (as claimed): timer stop on every exit path.  Once download_video
\* has returned or raised for an item, that item's timer was never started
\* or is cancelled, and no tick of that item is written while a later item
\* is downloaded.
C12_TimerStoppedOnExit ==
    /\ \A i \in Items : i < idx => (timer[i].st = "new" \/ timer[i].finished)
    /\ \A k \in DOMAIN stdout : stdout[k].src = "timer" => stdout[k].item = Cur

\* C13 (as claimed): the final render is the last render.  After the final
\* 100% line of a transfer no timer tick of that transfer writes a line,
\* neither before nor after the newline that ends it.
C13_FinalRenderIsLast ==
    \A k \in DOMAIN stdout : \A m \in DOMAIN stdout :
        (stdout[k].kind = "final" /\ m > k /\ stdout[m].item = stdout[k].item) =>
            stdout[m].src # "timer"

\* C14 (as claimed): append only for partial content.  The destination is
\* opened in append mode only when the server declares range support and
\* answers 206, and after a successful transfer the file is never larger
\* than the resource.
C14_AppendOnlyForPartial ==
    Called =>
        /\ hist.mode = "ab" =>
              (DeclaresRanges(hist.resp) /\ hist.resp.status = PARTIAL_CONTENT)
        /\ hist.outcome = "Done" => FileSize(CurFile) <= hist.resp.total

\* C15 (as claimed): name field width.  The name part of a formatter has
\* exactly floor(W/2) - 1 characters: a title longer than the field is cut
\* to field - 3 characters followed by "...", any other title is padded
\* with spaces to the field width.
C15_NameFieldWidth ==
    prog_formatter.constructed =>
        LET field == (termwidth \div 2) - 1
            title == videos[1]
            shown == prog_formatter.name
        IN  /\ Len(shown) = field
            /\ Len(title) > field =>
                  /\ SubSeq(shown, 1, field - 3) = SubSeq(title, 1, field - 3)
                  /\ SubSeq(shown, field - 2, field) = "..."
            /\ Len(title) <= field =>
                  shown = title \o Repeat(" ", field - Len(title))

\* C16 (as claimed): bar fill.  For a fraction f = done / size in [0, 1] on
\* a terminal of 20 columns or more, the line format_progress returns shows
\* floor(bar_width * f) hash signs, then dashes up to bar_width =
\* (floor(W/2) - 1) - 7 signs in all, and floor(100 * f) as the percent,
\* right-justified in 3 characters.
C16_BarFill ==
    (rendered.called /\ termwidth >= 20 /\ rendered.done <= rendered.size) =>
        LET bar_width == ((termwidth \div 2) - 1) - 7
            hash_count == (bar_width * rendered.done) \div rendered.size
            percent == (100 * rendered.done) \div rendered.size
        IN  rendered.text =
                prog_formatter.name \o spaces(termwidth)
                \o "[" \o Repeat("#", hash_count) \o Repeat("-", bar_width - hash_count)
                \o "] " \o RightJustify(Decimal(percent), 3) \o "%"

\* C17 (as claimed): progress is rendered only with a usable denominator.
\* Whenever print_progress is about to run, content_size is known and
\* strictly positive; and starting the progress display (lines 130-149)
\* never ends the invocation: the main thread goes on to open the file.
C17_UsableDenominator ==
    /\ []((pc = "progress" /\ ~quiet /\ content_size[idx] # None) =>
              content_size[idx][1] > 0)
    /\ [][pc = "progress" => pc' = "open"]_vars

====
